---- MODULE Spec2Model ----
(***************************************************************************)
(* Model of src/pandas_questions.py: the referendum pipeline               *)
(*   load_data -> merge_regions_and_departments ->                         *)
(*   merge_referendum_and_areas -> compute_referendum_result_by_regions -> *)
(*   plot_referendum_map.                                                  *)
(*                                                                         *)
(* A Python str is a tuple of one-character strings, a DataFrame is a      *)
(* record of its index, its column list, its dtypes and its rows, and the  *)
(* Python objects live in a heap so that aliasing and in-place column      *)
(* assignment are visible.  float64 values are exact rationals plus        *)
(* nan/inf/-inf (rounding is not modelled).                                *)
(***************************************************************************)
EXTENDS Integers, Sequences, FiniteSets, TLC

\* ------------------------------------------------------------------ bounds
MaxRegions == 2
MaxDepartments == 2
MaxReferendum == 2
MaxGeo == 2

\* --------------------------------------------------------- generic helpers
Range(s) == {s[i] : i \in 1..Len(s)}

RECURSIVE Concat(_)
Concat(ss) == IF ss = <<>> THEN <<>> ELSE Head(ss) \o Concat(Tail(ss))

RECURSIVE SumSeq(_)
SumSeq(s) == IF s = <<>> THEN 0 ELSE Head(s) + SumSeq(Tail(s))

SeqsUpTo(S, n) == UNION {[1..k -> S] : k \in 0..n}

Abs(n) == IF n < 0 THEN -n ELSE n

RECURSIVE GCD(_, _)
GCD(a, b) == IF b = 0 THEN a ELSE GCD(b, a % b)

\* ------------------------------------------------------------ Python values
\* str(n) for an int: its decimal digits, most significant first.
Digits == <<"0", "1", "2", "3", "4", "5", "6", "7", "8", "9">>

RECURSIVE NatToStr(_)
NatToStr(n) == IF n < 10 THEN <<Digits[n + 1]>>
               ELSE NatToStr(n \div 10) \o <<Digits[(n % 10) + 1]>>

IntToStr(n) == IF n < 0 THEN <<"-">> \o NatToStr(-n) ELSE NatToStr(n)

\* A cell of a raw code column: a Python int or a Python str.
PyInt(n) == [pytype |-> "int", i |-> n, s |-> <<>>]
PyStr(t) == [pytype |-> "str", i |-> 0, s |-> t]

\* Series.astype(str) on one cell.
astype_str(v) == IF v.pytype = "int" THEN IntToStr(v.i) ELSE v.s

\* Variant: no padding at all.
zfill_unpadded(s, width) == s

\* Series.str.zfill(width) on one cell (codes carry no sign character).
RECURSIVE zfill(_, _)
zfill(s, width) == IF Len(s) >= width THEN s ELSE zfill(<<"0">> \o s, width)

\* Variant: the test negated.
str_contains_inverted(s, pat) == \A i \in 1..Len(s) : s[i] # pat

\* Series.str.contains(pat) on one cell, for a one-character literal pattern.
str_contains(s, pat) == \E i \in 1..Len(s) : s[i] = pat

\* The missing value of an object column, and float64 values.
NaN == <<"NaN">>
Float(n, d) == [kind |-> "finite", num |-> n, den |-> d]
FNaN == [kind |-> "nan", num |-> 0, den |-> 1]
FInf == [kind |-> "inf", num |-> 0, den |-> 1]
FNegInf == [kind |-> "-inf", num |-> 0, den |-> 1]
ToFloat(n) == Float(n, 1)

Normalize(n, d) ==
    LET g == GCD(Abs(n), Abs(d))
        sg == IF d < 0 THEN -1 ELSE 1
    IN Float(sg * (n \div g), sg * (d \div g))

\* float64 addition and true division (IEEE: x/0 is nan or +-inf, no error).
FAdd(x, y) ==
    IF x.kind = "nan" \/ y.kind = "nan" THEN FNaN
    ELSE IF x.kind = "finite" /\ y.kind = "finite"
         THEN Normalize(x.num * y.den + y.num * x.den, x.den * y.den)
    ELSE IF x.kind = "finite" THEN y
    ELSE IF y.kind = "finite" THEN x
    ELSE IF x.kind = y.kind THEN x ELSE FNaN

\* Variant: a division that answers 0 for a zero divisor.
FDivZeroGuarded(x, y) ==
    IF x.kind = "finite" /\ y.kind = "finite"
    THEN IF y.num = 0 THEN Float(0, 1)
         ELSE Normalize(x.num * y.den, x.den * y.num)
    ELSE FNaN

FDiv(x, y) ==
    IF x.kind = "nan" \/ y.kind = "nan" THEN FNaN
    ELSE IF x.kind = "finite" /\ y.kind = "finite"
         THEN IF y.num = 0
              THEN IF x.num = 0 THEN FNaN
                   ELSE IF x.num > 0 THEN FInf ELSE FNegInf
              ELSE Normalize(x.num * y.den, x.den * y.num)
    ELSE IF x.kind = "finite" THEN Float(0, 1)
    ELSE IF y.kind = "finite"
         THEN IF (x.kind = "inf") = (y.num > 0) THEN FInf ELSE FNegInf
    ELSE FNaN

AsFloat(v, dtype) == IF dtype = "int64" THEN ToFloat(v) ELSE v

\* Order of Python str values (code points), used by the group-by sort.
Alphabet == <<"-", "0", "1", "2", "3", "4", "5", "6", "7", "8", "9",
              "A", "B", "C", "M", "O", "Z">>
Ord(c) == CHOOSE i \in 1..Len(Alphabet) : Alphabet[i] = c

RECURSIVE StrLess(_, _)
StrLess(s, t) ==
    IF t = <<>> THEN FALSE
    ELSE IF s = <<>> THEN TRUE
    ELSE IF Head(s) = Head(t) THEN StrLess(Tail(s), Tail(t))
    ELSE Ord(Head(s)) < Ord(Head(t))

\* -------------------------------------------------------------- DataFrames
RangeIndex(n) == [i \in 1..n |-> i - 1]

DataFrame(cols, dts, rs) ==
    [index_name |-> "", index |-> RangeIndex(Len(rs)),
     columns |-> cols, dtypes |-> dts, rows |-> rs]

Column(df, c) == [i \in 1..Len(df.rows) |-> df.rows[i][c]]

\* DataFrame.rename(columns=mapping): a new frame.
NewName(mapping, c) == IF c \in DOMAIN mapping THEN mapping[c] ELSE c

rename(df, mapping) ==
    LET old(c2) == CHOOSE c \in Range(df.columns) : NewName(mapping, c) = c2
        new == [i \in 1..Len(df.columns) |-> NewName(mapping, df.columns[i])]
    IN [df EXCEPT
          !.columns = new,
          !.dtypes = [c2 \in Range(new) |-> df.dtypes[old(c2)]],
          !.rows = [i \in 1..Len(df.rows) |->
                      [c2 \in Range(new) |-> df.rows[i][old(c2)]]]]

\* df[[c1, ..., ck]]: a new frame with the listed columns in the listed order.
getitem_columns(df, cols) ==
    [df EXCEPT
       !.columns = cols,
       !.dtypes = [c \in Range(cols) |-> df.dtypes[c]],
       !.rows = [i \in 1..Len(df.rows) |->
                   [c \in Range(cols) |-> df.rows[i][c]]]]

\* df[mask]: a new frame with the rows whose mask is TRUE; labels are kept.
RECURSIVE Kept(_, _)
Kept(mask, i) ==
    IF i > Len(mask) THEN <<>>
    ELSE (IF mask[i] THEN <<i>> ELSE <<>>) \o Kept(mask, i + 1)

getitem_mask(df, mask) ==
    LET keep == Kept(mask, 1)
    IN [df EXCEPT
          !.index = [k \in 1..Len(keep) |-> df.index[keep[k]]],
          !.rows = [k \in 1..Len(keep) |-> df.rows[keep[k]]]]

\* df[c] = values: in-place assignment of a column (appended when new).
setitem(df, c, dtype, values) ==
    LET cols == IF c \in Range(df.columns) THEN df.columns
                ELSE Append(df.columns, c)
    IN [df EXCEPT
          !.columns = cols,
          !.dtypes = [d \in Range(cols) |->
                        IF d = c THEN dtype ELSE df.dtypes[d]],
          !.rows = [i \in 1..Len(df.rows) |->
                      [d \in Range(cols) |->
                         IF d = c THEN values[i] ELSE df.rows[i][d]]]]

\* DataFrame.drop(columns=cols): a new frame.
drop(df, cols) ==
    getitem_columns(df, SelectSeq(df.columns, LAMBDA c : c \notin cols))

\* DataFrame.reset_index(): the index becomes the first column.
reset_index(df) ==
    LET cols == <<df.index_name>> \o df.columns
    IN [index_name |-> "", index |-> RangeIndex(Len(df.rows)),
        columns |-> cols,
        dtypes |-> [c \in Range(cols) |->
                      IF c = df.index_name THEN "object" ELSE df.dtypes[c]],
        rows |-> [i \in 1..Len(df.rows) |->
                    [c \in Range(cols) |->
                       IF c = df.index_name THEN df.index[i]
                       ELSE df.rows[i][c]]]]

\* Variant: how="inner", a left row without a match is dropped.
how_inner(row) == <<>>

\* how="left": a left row without a match is kept, once.
how_left(row) == <<row>>

\* left.merge(right, left_on=.., right_on=.., how="left"): a new frame.  Every
\* left row appears once per right row with an equal key, in order, or once
\* with missing right-hand cells when no right row has its key.  A right-hand
\* int64 column becomes float64 when some left row is unmatched.  Columns of
\* the same name on both sides, the join key aside, get the suffixes _x, _y.
merge(left, right, left_on, right_on) ==
    LET rcols == IF left_on = right_on
                 THEN SelectSeq(right.columns, LAMBDA c : c # right_on)
                 ELSE right.columns
        overlap == Range(left.columns) \cap Range(rcols)
        LName(c) == IF c \in overlap THEN c \o "_x" ELSE c
        RName(c) == IF c \in overlap THEN c \o "_y" ELSE c
        lnames == {LName(c) : c \in Range(left.columns)}
        cols == [i \in 1..Len(left.columns) |-> LName(left.columns[i])]
                \o [i \in 1..Len(rcols) |-> RName(rcols[i])]
        lsrc(c2) == CHOOSE c \in Range(left.columns) : LName(c) = c2
        rsrc(c2) == CHOOSE c \in Range(rcols) : RName(c) = c2
        matches(i) ==
            Kept([j \in 1..Len(right.rows) |->
                    right.rows[j][right_on] = left.rows[i][left_on]], 1)
        unmatched == \E i \in 1..Len(left.rows) : matches(i) = <<>>
        upcast(c) == unmatched /\ right.dtypes[c] = "int64"
        rnull(c) == IF right.dtypes[c] = "object" THEN NaN ELSE FNaN
        rcell(j, c) == IF upcast(c) THEN ToFloat(right.rows[j][c])
                       ELSE right.rows[j][c]
        joined(i, j) ==
            [c2 \in Range(cols) |->
               IF c2 \in lnames THEN left.rows[i][lsrc(c2)]
               ELSE IF j = 0 THEN rnull(rsrc(c2)) ELSE rcell(j, rsrc(c2))]
        rowsFor(i) ==
            IF matches(i) = <<>> THEN how_left(joined(i, 0))
            ELSE [k \in 1..Len(matches(i)) |-> joined(i, matches(i)[k])]
    IN DataFrame(cols,
                 [c2 \in Range(cols) |->
                    IF c2 \in lnames THEN left.dtypes[lsrc(c2)]
                    ELSE IF upcast(rsrc(c2)) THEN "float64"
                    ELSE right.dtypes[rsrc(c2)]],
                 Concat([i \in 1..Len(left.rows) |-> rowsFor(i)]))

\* The labels of a group-by: the distinct non-missing keys in ascending order
\* (groupby defaults: sort=True, dropna=True).
RECURSIVE SortStr(_)
SortStr(S) ==
    IF S = {} THEN <<>>
    ELSE LET m == CHOOSE x \in S : \A y \in S \ {x} : StrLess(x, y)
         IN <<m>> \o SortStr(S \ {m})

GroupKeys(df, by) ==
    SortStr({df.rows[i][by] : i \in 1..Len(df.rows)} \ {NaN})

\* Variant: every keyed row in every group.
GroupRowsUngrouped(df, by, k) ==
    Kept([i \in 1..Len(df.rows) |-> df.rows[i][by] # NaN], 1)

\* The rows of the group with label k, in order.
GroupRows(df, by, k) ==
    Kept([i \in 1..Len(df.rows) |-> df.rows[i][by] = k], 1)

\* The aggregations "first" (first non-missing value) and "sum".
agg_first(df, c, g) ==
    LET vals == SelectSeq([k \in 1..Len(g) |-> df.rows[g[k]][c]],
                          LAMBDA v : v # NaN)
    IN IF vals = <<>> THEN NaN ELSE Head(vals)

\* Variant: the first value of the group instead of the sum.
agg_sum_first(df, c, g) == df.rows[g[1]][c]

agg_sum(df, c, g) == SumSeq([k \in 1..Len(g) |-> df.rows[g[k]][c]])

\* df.groupby(by).agg(out=(column, func), ...): a new frame indexed by `by`.
groupby_agg(df, by, aggs) ==
    LET keys == GroupKeys(df, by)
        cols == [a \in 1..Len(aggs) |-> aggs[a].out]
        spec(c) == CHOOSE a \in Range(aggs) : a.out = c
    IN [index_name |-> by, index |-> keys, columns |-> cols,
        dtypes |-> [c \in Range(cols) |-> df.dtypes[spec(c).column]],
        rows |-> [k \in 1..Len(keys) |->
                    [c \in Range(cols) |->
                       IF spec(c).func = "first"
                       THEN agg_first(df, spec(c).column,
                                      GroupRows(df, by, keys[k]))
                       ELSE agg_sum(df, spec(c).column,
                                    GroupRows(df, by, keys[k]))]]]

\* ------------------------------------------------------------ Python heap
\* Objects are numbered by their position in the heap; a variable holds a
\* reference.  A call returns [heap, ref]: the heap it leaves and its result.
Alloc(h, obj) == [heap |-> Append(h, obj), ref |-> Len(h) + 1]
Store(h, ref, obj) == [h EXCEPT ![ref] = obj]

\* The locals of a call die when it returns; its result survives.
Return(n0, h, ref) ==
    IF ref <= n0 THEN [heap |-> SubSeq(h, 1, n0), ref |-> ref]
    ELSE [heap |-> Append(SubSeq(h, 1, n0), h[ref]), ref |-> n0 + 1]

\* Variant: no copy, the same object under a second name.
copy_alias(h, ref) == [heap |-> h, ref |-> ref]

\* DataFrame.copy(): a new object with the same content.
copy(h, ref) == Alloc(h, h[ref])

\* ------------------------------------------------------- the four functions
\* Variant: the department columns first.
AreaColumnsReordered == <<"code_dep", "name_dep", "code_reg", "name_reg">>

\* The column list of the returned frame (lines 49-51).
AreaColumns == <<"code_reg", "name_reg", "code_dep", "name_dep">>

\* Statement sequencing: the value of `v` is computed once and named in the
\* statements `K` that follow it.
Bind(v, K(_)) == CHOOSE y \in {K(x) : x \in {v}} : TRUE

\* merge_regions_and_departments(regions, departments)
merge_regions_and_departments(h, regions, departments) ==
    Bind(Alloc(h, rename(h[regions],
                         [code |-> "code_reg", name |-> "name_reg"])),
         LAMBDA a1 :
    Bind(Alloc(a1.heap,
               rename(a1.heap[departments],
                      [code |-> "code_dep", name |-> "name_dep",
                       region_code |-> "code_reg"])),
         LAMBDA a2 :
    Bind(Alloc(a2.heap,
               getitem_columns(a2.heap[a1.ref], <<"code_reg", "name_reg">>)),
         LAMBDA a3 :
    Bind(Alloc(a3.heap,
               merge(a3.heap[a2.ref], a3.heap[a3.ref],
                     "code_reg", "code_reg")),
         LAMBDA a4 :
    Bind(Alloc(a4.heap, getitem_columns(a4.heap[a4.ref], AreaColumns)),
         LAMBDA a5 :
    Return(Len(h), a5.heap, a5.ref))))))

\* The padded code column: col.astype(str).str.zfill(2)
PaddedCodes(df, c) ==
    [i \in 1..Len(df.rows) |-> zfill(astype_str(df.rows[i][c]), 2)]

\* The mask ~col.str.contains("Z")
NoMarkerMask(df, c) ==
    [i \in 1..Len(df.rows) |-> ~str_contains(df.rows[i][c], "Z")]

\* merge_referendum_and_areas(referendum, regions_and_departments)
merge_referendum_and_areas(h, referendum, regions_and_departments) ==
    Bind(copy(h, referendum),
         LAMBDA a1 :
    Bind(Store(a1.heap, a1.ref,
               setitem(a1.heap[a1.ref], "code_dep", "object",
                       PaddedCodes(a1.heap[a1.ref], "Department code"))),
         LAMBDA h2 :
    Bind(Store(h2, a1.ref,
               setitem(h2[a1.ref], "name_dep", "object",
                       Column(h2[a1.ref], "Department name"))),
         LAMBDA h3 :
    Bind(copy(h3, regions_and_departments),
         LAMBDA a4 :
    Bind(Store(a4.heap, a4.ref,
               setitem(a4.heap[a4.ref], "code_dep", "object",
                       PaddedCodes(a4.heap[a4.ref], "code_dep"))),
         LAMBDA h5 :
    Bind(Alloc(h5, getitem_mask(h5[a1.ref],
                                NoMarkerMask(h5[a1.ref], "code_dep"))),
         LAMBDA a6 :
    Bind(Alloc(a6.heap,
               merge(a6.heap[a6.ref], a6.heap[a4.ref],
                     "code_dep", "code_dep")),
         LAMBDA a7 :
    Bind(Alloc(a7.heap, drop(a7.heap[a7.ref], {"name_dep_y"})),
         LAMBDA a8 :
    Bind(Alloc(a8.heap,
               rename(a8.heap[a8.ref], [name_dep_x |-> "name_dep"])),
         LAMBDA a9 :
    Return(Len(h), a9.heap, a9.ref))))))))))

\* compute_referendum_result_by_regions(referendum_and_areas)
Aggregations ==
    <<[out |-> "name_reg", column |-> "name_reg", func |-> "first"],
      [out |-> "Registered", column |-> "Registered", func |-> "sum"],
      [out |-> "Abstentions", column |-> "Abstentions", func |-> "sum"],
      [out |-> "Null", column |-> "Null", func |-> "sum"],
      [out |-> "Choice A", column |-> "Choice A", func |-> "sum"],
      [out |-> "Choice B", column |-> "Choice B", func |-> "sum"]>>

compute_referendum_result_by_regions(h, referendum_and_areas) ==
    Bind(Alloc(h, groupby_agg(h[referendum_and_areas], "code_reg",
                              Aggregations)),
         LAMBDA a1 :
    Return(Len(h), a1.heap, a1.ref))

\* The ratio column: merged["Choice A"] / (merged["Choice A"] + merged["Choice B"])
Ratio(df) ==
    [i \in 1..Len(df.rows) |->
       LET a == AsFloat(df.rows[i]["Choice A"], df.dtypes["Choice A"])
           b == AsFloat(df.rows[i]["Choice B"], df.dtypes["Choice B"])
       IN FDiv(a, FAdd(a, b))]

\* plot_referendum_map(referendum_result_by_regions); `file` is the content of
\* data/regions.geojson as read by gpd.read_file.
plot_referendum_map(h, file, referendum_result_by_regions) ==
    Bind(Alloc(h, file),
         LAMBDA a1 :
    Bind(Alloc(a1.heap, reset_index(a1.heap[referendum_result_by_regions])),
         LAMBDA a2 :
    Bind(Alloc(a2.heap,
               merge(a2.heap[a1.ref], a2.heap[a2.ref], "code", "code_reg")),
         LAMBDA a3 :
    Bind(Store(a3.heap, a3.ref,
               setitem(a3.heap[a3.ref], "ratio", "float64",
                       Ratio(a3.heap[a3.ref]))),
         LAMBDA h4 :
    Return(Len(h), h4, a3.ref)))))

\* ------------------------------------------------------------------- state
VARIABLES
    heap,                     \* the DataFrame objects
    geojson,                  \* content of data/regions.geojson
    pc,                       \* position in the __main__ block
    referendum, df_reg, df_dep,         \* references returned by load_data
    regions_and_departments,  \* reference, 0 before the call
    referendum_and_areas,     \* reference, 0 before the call
    referendum_results,       \* reference, 0 before the call
    map_result,               \* reference returned by plot_referendum_map
    stdout,                   \* what print(referendum_results) wrote
    figure                    \* the values handed to GeoDataFrame.plot

vars == <<heap, geojson, pc, referendum, df_reg, df_dep,
          regions_and_departments, referendum_and_areas, referendum_results,
          map_result, stdout, figure>>

\* ---------------------------------------------------------- input domains
\* data/regions.csv: columns code, name, slug
RegionCodes == {<<"8", "4">>, <<"0", "1">>}
RegionNames == {<<"A", "R", "A">>, <<"G">>}
RegionColumns == <<"code", "name", "slug">>
RegionRows ==
    {[code |-> c, name |-> n, slug |-> <<"r">>] :
        c \in RegionCodes, n \in RegionNames}
RegionsTable(rs) ==
    DataFrame(RegionColumns, [c \in Range(RegionColumns) |-> "object"], rs)
RegionsTables == {RegionsTable(rs) : rs \in SeqsUpTo(RegionRows, MaxRegions)}

\* data/departments.csv: columns region_code, code, name, slug
DepartmentCodes ==
    {PyStr(<<"0", "1">>), PyInt(1), PyStr(<<"9", "7", "1">>)}
OwningRegionCodes == RegionCodes \cup {<<"9", "9">>}
DepartmentColumns == <<"region_code", "code", "name", "slug">>
DepartmentRows ==
    {[region_code |-> r, code |-> c, name |-> <<"A", "i", "n">>,
      slug |-> <<"d">>] : r \in OwningRegionCodes, c \in DepartmentCodes}
DepartmentsTable(rs) ==
    DataFrame(DepartmentColumns,
              [c \in Range(DepartmentColumns) |-> "object"], rs)
DepartmentsTables ==
    {DepartmentsTable(rs) : rs \in SeqsUpTo(DepartmentRows, MaxDepartments)}

\* data/referendum.csv: one row per department
ReferendumCodes ==
    {PyInt(1), PyStr(<<"1">>), PyStr(<<"0", "1">>), PyStr(<<"2", "A">>),
     PyStr(<<"Z", "A">>), PyStr(<<"9", "7", "1">>)}
CountColumns == <<"Registered", "Abstentions", "Null", "Choice A", "Choice B">>
Counts == {<<1000, 0, 0, 600, 400>>, <<10, 2, 1, 4, 3>>, <<5, 5, 0, 0, 0>>}
MalformedCounts == {<<3, 0, 2, -1, 2>>}
ReferendumColumns == <<"Department code", "Department name">> \o CountColumns
ReferendumRow(code, cnt) ==
    [c \in Range(ReferendumColumns) |->
       IF c = "Department code" THEN code
       ELSE IF c = "Department name" THEN <<"A", "I", "N">>
       ELSE cnt[CHOOSE k \in 1..Len(CountColumns) : CountColumns[k] = c]]
ReferendumRows ==
    {ReferendumRow(code, cnt) : code \in ReferendumCodes, cnt \in Counts}
ReferendumTable(rs) ==
    DataFrame(ReferendumColumns,
              [c \in Range(ReferendumColumns) |->
                 IF c \in Range(CountColumns) THEN "int64" ELSE "object"],
              rs)
ReferendumTables ==
    {ReferendumTable(rs) : rs \in SeqsUpTo(ReferendumRows, MaxReferendum)}

\* data/regions.geojson: one row per region polygon
GeoCodes == OwningRegionCodes
GeoColumns == <<"code", "nom", "geometry">>
GeoRows ==
    {[code |-> c, nom |-> <<"n">>, geometry |-> <<"P">> \o c] : c \in GeoCodes}
GeoTable(rs) ==
    DataFrame(GeoColumns, [c \in Range(GeoColumns) |-> "object"], rs)
GeoTables == {GeoTable(rs) : rs \in SeqsUpTo(GeoRows, MaxGeo)}

\* Fixed inputs used where another input is the one being varied.
SampleRegions ==
    RegionsTable(<<[code |-> <<"8", "4">>, name |-> <<"A", "R", "A">>,
                    slug |-> <<"r">>],
                   [code |-> <<"0", "1">>, name |-> <<"G">>,
                    slug |-> <<"r">>]>>)
DepartmentRow(r, c) ==
    [region_code |-> r, code |-> c, name |-> <<"A", "i", "n">>,
     slug |-> <<"d">>]
SampleDepartments ==
    {DepartmentsTable(<<DepartmentRow(<<"8", "4">>, PyStr(<<"0", "1">>)),
                        DepartmentRow(<<"0", "1">>, PyStr(<<"9", "7", "1">>))>>),
     DepartmentsTable(<<DepartmentRow(<<"8", "4">>, PyStr(<<"0", "1">>)),
                        DepartmentRow(<<"8", "4">>, PyStr(<<"9", "7", "1">>))>>),
     DepartmentsTable(<<DepartmentRow(<<"8", "4">>, PyStr(<<"0", "1">>)),
                        DepartmentRow(<<"0", "1">>, PyInt(1))>>)}
SampleReferendum ==
    ReferendumTable(<<ReferendumRow(PyInt(1), <<10, 2, 1, 4, 3>>),
                      ReferendumRow(PyStr(<<"Z", "A">>), <<5, 5, 0, 0, 0>>)>>)
SampleReferendums ==
    {ReferendumTable(<<ReferendumRow(PyStr(<<"0", "1">>), c1),
                       ReferendumRow(PyStr(<<"9", "7", "1">>), c2)>>) :
        c1 \in Counts \cup MalformedCounts,
        c2 \in Counts \cup MalformedCounts}
SampleGeo ==
    GeoTable(<<[code |-> <<"8", "4">>, nom |-> <<"n">>,
                geometry |-> <<"P", "8", "4">>],
               [code |-> <<"9", "9">>, nom |-> <<"n">>,
                geometry |-> <<"P", "9", "9">>]>>)

\* ------------------------------------------------------------------ Init
\* The state after load_data() returned (line 144).
Loaded(f, r, d, g) ==
    /\ heap = <<f, r, d>>
    /\ geojson = g
    /\ referendum = 1 /\ df_reg = 2 /\ df_dep = 3
    /\ regions_and_departments = 0
    /\ referendum_and_areas = 0
    /\ referendum_results = 0
    /\ map_result = 0
    /\ stdout = <<>>
    /\ figure = <<>>
    /\ pc = "loaded"

Init ==
    \/ \E r \in RegionsTables, d \in SampleDepartments :
          Loaded(SampleReferendum, r, d, SampleGeo)
    \/ \E d \in DepartmentsTables :
          Loaded(SampleReferendum, SampleRegions, d, SampleGeo)
    \/ \E d \in SampleDepartments, f \in ReferendumTables :
          Loaded(f, SampleRegions, d, SampleGeo)
    \/ \E d \in SampleDepartments, f \in SampleReferendums, g \in GeoTables :
          Loaded(f, SampleRegions, d, g)

\* ---------------------------------------------------------------- actions
\* line 145
MergeRegionsAndDepartments ==
    /\ pc = "loaded"
    /\ \E r \in {merge_regions_and_departments(heap, df_reg, df_dep)} :
          /\ heap' = r.heap
          /\ regions_and_departments' = r.ref
    /\ pc' = "areas"
    /\ UNCHANGED <<geojson, referendum, df_reg, df_dep, referendum_and_areas,
                   referendum_results, map_result, stdout, figure>>

\* line 148
MergeReferendumAndAreas ==
    /\ pc = "areas"
    /\ \E r \in {merge_referendum_and_areas(heap, referendum,
                                           regions_and_departments)} :
          /\ heap' = r.heap
          /\ referendum_and_areas' = r.ref
    /\ pc' = "merged"
    /\ UNCHANGED <<geojson, referendum, df_reg, df_dep,
                   regions_and_departments, referendum_results, map_result,
                   stdout, figure>>

\* line 151
ComputeReferendumResultByRegions ==
    /\ pc = "merged"
    /\ \E r \in {compute_referendum_result_by_regions(heap,
                                                     referendum_and_areas)} :
          /\ heap' = r.heap
          /\ referendum_results' = r.ref
    /\ pc' = "results"
    /\ UNCHANGED <<geojson, referendum, df_reg, df_dep,
                   regions_and_departments, referendum_and_areas, map_result,
                   stdout, figure>>

\* line 154
PrintResults ==
    /\ pc = "results"
    /\ stdout' = Append(stdout, heap[referendum_results])
    /\ pc' = "printed"
    /\ UNCHANGED <<heap, geojson, referendum, df_reg, df_dep,
                   regions_and_departments, referendum_and_areas,
                   referendum_results, map_result, figure>>

\* line 156; merged.plot(column="ratio", ...) draws the ratio of every row.
PlotReferendumMap ==
    /\ pc = "printed"
    /\ \E r \in {plot_referendum_map(heap, geojson, referendum_results)} :
          /\ heap' = r.heap
          /\ map_result' = r.ref
          /\ figure' = Column(r.heap[r.ref], "ratio")
    /\ pc' = "plotted"
    /\ UNCHANGED <<geojson, referendum, df_reg, df_dep,
                   regions_and_departments, referendum_and_areas,
                   referendum_results, stdout>>

Next ==
    \/ MergeRegionsAndDepartments
    \/ MergeReferendumAndAreas
    \/ ComputeReferendumResultByRegions
    \/ PrintResults
    \/ PlotReferendumMap

Spec == Init /\ [][Next]_vars

\* ================================================================ properties
Referendum == heap[referendum]
Regions == heap[df_reg]
Departments == heap[df_dep]
Areas == heap[regions_and_departments]
Merged == heap[referendum_and_areas]
Results == heap[referendum_results]
Map == heap[map_result]

Rows(df) == 1..Len(df.rows)
Distinct(s) == \A i, j \in 1..Len(s) : i # j => s[i] # s[j]
Padded(raw) == zfill(astype_str(raw), 2)

\* The codes of the region table are pairwise distinct.
RegionCodesDistinct == Distinct(Column(Regions, "code"))
HasRegion(code) == \E r \in Rows(Regions) : Regions.rows[r]["code"] = code

\* ---------------------------------------------------------------- C4
\* C4 as stated: for every region table and department table the area table
\* has one row per department row and exactly the four columns code_reg,
\* name_reg, code_dep, name_dep in that order.
C4_Original ==
    regions_and_departments # 0 =>
        /\ Areas.columns = <<"code_reg", "name_reg", "code_dep", "name_dep">>
        /\ Len(Areas.rows) = Len(Departments.rows)

\* C4 (amended): the area table always has exactly the four columns code_reg,
\* name_reg, code_dep, name_dep in that order, and it has one row per
\* department row when the codes of the region table are pairwise distinct.
C4_AreaShape ==
    regions_and_departments # 0 =>
        /\ Areas.columns = <<"code_reg", "name_reg", "code_dep", "name_dep">>
        /\ RegionCodesDistinct =>
              /\ Len(Areas.rows) = Len(Departments.rows)
              /\ \A i \in Rows(Areas) :
                    /\ Areas.rows[i]["code_dep"] = Departments.rows[i]["code"]
                    /\ Areas.rows[i]["name_dep"] = Departments.rows[i]["name"]

C4_Witness ==
    /\ regions_and_departments # 0
    /\ RegionCodesDistinct
    /\ Len(Regions.rows) = 2
    /\ Len(Departments.rows) = 2
    /\ Len(Areas.rows) = 2
    /\ Areas.rows[1]["code_reg"] = Areas.rows[2]["code_reg"]
    /\ HasRegion(Areas.rows[1]["code_reg"])

\* ---------------------------------------------------------------- C5
\* C5: every row of the area table carries the region code its department
\* declares, every department row is present in the area table, and the
\* region name of a row is missing exactly when its region code is the code
\* of no region (otherwise it is the name of a region with that code).
C5_RegionCodeOfDepartment ==
    regions_and_departments # 0 =>
        /\ \A i \in Rows(Areas) : \E d \in Rows(Departments) :
              /\ Areas.rows[i]["code_dep"] = Departments.rows[d]["code"]
              /\ Areas.rows[i]["name_dep"] = Departments.rows[d]["name"]
              /\ Areas.rows[i]["code_reg"] = Departments.rows[d]["region_code"]
        /\ \A d \in Rows(Departments) : \E i \in Rows(Areas) :
              /\ Areas.rows[i]["code_dep"] = Departments.rows[d]["code"]
              /\ Areas.rows[i]["name_dep"] = Departments.rows[d]["name"]
              /\ Areas.rows[i]["code_reg"] = Departments.rows[d]["region_code"]
        /\ \A i \in Rows(Areas) :
              IF HasRegion(Areas.rows[i]["code_reg"])
              THEN \E r \in Rows(Regions) :
                      /\ Regions.rows[r]["code"] = Areas.rows[i]["code_reg"]
                      /\ Regions.rows[r]["name"] = Areas.rows[i]["name_reg"]
              ELSE Areas.rows[i]["name_reg"] = NaN

C5_Witness ==
    /\ regions_and_departments # 0
    /\ Len(Areas.rows) = 2
    /\ Areas.rows[1]["name_reg"] = NaN
    /\ Areas.rows[1]["code_reg"] = <<"9", "9">>
    /\ Areas.rows[2]["name_reg"] # NaN

\* ---------------------------------------------------------------- C2
\* The department code of a referendum row contains the overseas marker.
HasMarker(raw) == \E k \in 1..Len(astype_str(raw)) : astype_str(raw)[k] = "Z"

Unmarked(df) ==
    SelectSeq(df.rows, LAMBDA row : ~HasMarker(row["Department code"]))

\* A merged row restricted to the columns of the referendum table.
ReferendumPart(row) == [c \in Range(ReferendumColumns) |-> row[c]]

NoMarkedRow ==
    \A i \in Rows(Merged) :
        /\ ~HasMarker(Merged.rows[i]["Department code"])
        /\ \A k \in 1..Len(Merged.rows[i]["code_dep"]) :
              Merged.rows[i]["code_dep"][k] # "Z"

\* The padded department codes of the area table are pairwise distinct.
AreaCodesDistinct ==
    Distinct([i \in Rows(Areas) |-> Padded(Areas.rows[i]["code_dep"])])

\* C2 as stated: for every referendum table and every area table no merged
\* row carries the marker, and the merged table has as many rows as the
\* referendum table has rows without the marker.
C2_Original ==
    referendum_and_areas # 0 =>
        /\ NoMarkedRow
        /\ Len(Merged.rows) = Len(Unmarked(Referendum))

\* C2 (amended): no merged row carries the marker; when the padded department
\* codes of the area table are pairwise distinct, the merged rows are the
\* referendum rows without the marker, each exactly once and in order, matched
\* in the area table or not.
C2_MarkedRowsDropped ==
    referendum_and_areas # 0 =>
        /\ NoMarkedRow
        /\ AreaCodesDistinct =>
              /\ Len(Merged.rows) = Len(Unmarked(Referendum))
              /\ \A i \in Rows(Merged) :
                    ReferendumPart(Merged.rows[i]) = Unmarked(Referendum)[i]

C2_Witness ==
    /\ referendum_and_areas # 0
    /\ AreaCodesDistinct
    /\ Len(Areas.rows) = 2
    /\ Len(Referendum.rows) = 2
    /\ HasMarker(Referendum.rows[1]["Department code"])
    /\ Referendum.rows[2]["Department code"] = PyStr(<<"2", "A">>)
    /\ Len(Merged.rows) = 1
    /\ Merged.rows[1]["code_reg"] = NaN

\* ---------------------------------------------------------------- C8
\* An area row whose padded code is `code`.
AreaRowsFor(code) ==
    {a \in Rows(Areas) : Padded(Areas.rows[a]["code_dep"]) = code}

\* C8: every merged row has a code of at least two characters, it carries the
\* region of an area row exactly when some area row has the same padded code,
\* and then that area row's region; in particular a referendum code 1 or "1"
\* is joined to the area code "01".
C8_PaddedJoin ==
    referendum_and_areas # 0 =>
        \A i \in Rows(Merged) :
            LET row == Merged.rows[i]
                raw == row["Department code"]
            IN /\ Len(row["code_dep"]) >= 2
               /\ raw \in {PyInt(1), PyStr(<<"1">>), PyStr(<<"0", "1">>)}
                     => row["code_dep"] = <<"0", "1">>
               /\ raw = PyStr(<<"9", "7", "1">>)
                     => row["code_dep"] = <<"9", "7", "1">>
               /\ (row["code_reg"] # NaN) <=> (AreaRowsFor(row["code_dep"]) # {})
               /\ row["code_reg"] # NaN =>
                     \E a \in AreaRowsFor(row["code_dep"]) :
                         /\ Areas.rows[a]["code_reg"] = row["code_reg"]
                         /\ Areas.rows[a]["name_reg"] = row["name_reg"]
               /\ (/\ raw \in {PyInt(1), PyStr(<<"1">>)}
                   /\ \E a \in Rows(Areas) :
                         Areas.rows[a]["code_dep"] = PyStr(<<"0", "1">>))
                     => row["code_reg"] # NaN

C8_Witness ==
    /\ referendum_and_areas # 0
    /\ Len(Merged.rows) = 2
    /\ Merged.rows[1]["Department code"] = PyInt(1)
    /\ Merged.rows[2]["Department code"] = PyStr(<<"1">>)
    /\ Merged.rows[1]["code_reg"] = <<"8", "4">>
    /\ Merged.rows[2]["code_reg"] = <<"8", "4">>
    /\ \A a \in Rows(Areas) : Areas.rows[a]["code_dep"] # PyInt(1)

\* ---------------------------------------------------------------- C1
\* The end-to-end scenario: the referendum table holds department "01" with
\* Choice A = 600 and Choice B = 400 and then department "971"; "01" is a
\* department of region "84" and of no other, "971" is not one of region "84".
Scenario ==
    /\ referendum_results # 0
    /\ Len(Referendum.rows) = 2
    /\ Referendum.rows[1]["Department code"] = PyStr(<<"0", "1">>)
    /\ Referendum.rows[1]["Choice A"] = 600
    /\ Referendum.rows[1]["Choice B"] = 400
    /\ Referendum.rows[2]["Department code"] = PyStr(<<"9", "7", "1">>)
    /\ Cardinality(AreaRowsFor(<<"0", "1">>)) = 1
    /\ \A a \in AreaRowsFor(<<"0", "1">>) :
          Areas.rows[a]["code_reg"] = <<"8", "4">>
    /\ \A a \in AreaRowsFor(<<"9", "7", "1">>) :
          Areas.rows[a]["code_reg"] # <<"8", "4">>

Region84Result ==
    \E k \in Rows(Results) :
        /\ Results.index[k] = <<"8", "4">>
        /\ Results.rows[k]["Choice A"] = 600
        /\ Results.rows[k]["Choice B"] = 400
        /\ \A k2 \in Rows(Results) : Results.index[k2] = <<"8", "4">> => k2 = k

Survives971 ==
    \E i \in Rows(Merged) :
        Merged.rows[i]["Department code"] = PyStr(<<"9", "7", "1">>)

\* C1 as stated: in the scenario the per-region table has region "84" with
\* Choice A = 600 and Choice B = 400, and no row of department "971" is in the
\* table returned by merge_referendum_and_areas.
C1_Original == Scenario => (Region84Result /\ ~Survives971)

\* C1 (amended): in the scenario the per-region table has region "84" with
\* Choice A = 600 and Choice B = 400; the row of department "971" passes the
\* filter of merge_referendum_and_areas, its code holding no "Z", and it is
\* in the per-region table under its own region when the area table has one
\* for it.
C1_EndToEnd ==
    Scenario =>
        /\ Region84Result
        /\ Survives971
        /\ \A i \in Rows(Merged) :
              (/\ Merged.rows[i]["Department code"] = PyStr(<<"9", "7", "1">>)
               /\ Merged.rows[i]["code_reg"] # NaN)
                 => \E k \in Rows(Results) :
                       Results.index[k] = Merged.rows[i]["code_reg"]

C1_Witness ==
    /\ Scenario
    /\ Survives971
    /\ Len(Results.rows) = 2
    /\ pc = "plotted"

\* ---------------------------------------------------------------- C3
\* The total of column c over the rows of `rows` whose position is in S.
RECURSIVE TotalOf(_, _, _)
TotalOf(rows, c, S) ==
    IF S = {} THEN 0
    ELSE LET i == CHOOSE i \in S : TRUE
         IN rows[i][c] + TotalOf(rows, c, S \ {i})

RowsOfRegion(code) == {i \in Rows(Merged) : Merged.rows[i]["code_reg"] = code}
RegionCodesOfMerged == {Merged.rows[i]["code_reg"] : i \in Rows(Merged)} \ {NaN}

\* C3: the per-region table is indexed by code_reg, has exactly one row per
\* distinct (non-missing) region code of the merged table, and each of its
\* five counts is the total of that column over the merged rows of the region.
C3_OneRowPerRegion ==
    referendum_results # 0 =>
        /\ Results.index_name = "code_reg"
        /\ Distinct(Results.index)
        /\ Range(Results.index) = RegionCodesOfMerged
        /\ \A k \in Rows(Results) : \A c \in Range(CountColumns) :
              Results.rows[k][c] =
                  TotalOf(Merged.rows, c, RowsOfRegion(Results.index[k]))

C3_Witness ==
    /\ referendum_results # 0
    /\ Len(Results.rows) = 1
    /\ Cardinality(RowsOfRegion(Results.index[1])) = 2
    /\ Results.rows[1]["Registered"] = 1010
    /\ Results.rows[1]["Choice A"] = 604

\* ---------------------------------------------------------------- C10
AllRows(df) == Rows(df)
RowsWithRegion == {i \in Rows(Merged) : Merged.rows[i]["code_reg"] # NaN}

\* C10 as stated: each count totals the same over the per-region table as
\* over the whole merged table, rows with a missing region code included.
C10_Original ==
    referendum_results # 0 =>
        \A c \in Range(CountColumns) :
            TotalOf(Results.rows, c, AllRows(Results)) =
                TotalOf(Merged.rows, c, AllRows(Merged))

\* C10 (amended): each count totals the same over the per-region table as
\* over the merged rows that carry a region code; the merged rows whose
\* region code is missing are left out of the per-region table.
C10_TotalsOfRegionRows ==
    referendum_results # 0 =>
        \A c \in Range(CountColumns) :
            TotalOf(Results.rows, c, AllRows(Results)) =
                TotalOf(Merged.rows, c, RowsWithRegion)

C10_Witness ==
    /\ referendum_results # 0
    /\ Len(Merged.rows) = 2
    /\ Merged.rows[1]["code_reg"] = <<"8", "4">>
    /\ Merged.rows[2]["code_reg"] = NaN
    /\ Merged.rows[2]["Registered"] = 10
    /\ Len(Results.rows) = 1
    /\ Results.rows[1]["Registered"] = 1000

\* ---------------------------------------------------------------- C6
ChoiceA(i) == AsFloat(Map.rows[i]["Choice A"], Map.dtypes["Choice A"])
ChoiceB(i) == AsFloat(Map.rows[i]["Choice B"], Map.dtypes["Choice B"])

\* C6: in the returned table a row with counts A >= 0, B >= 0, A + B > 0 has
\* the finite ratio A / (A + B), which lies in [0, 1]; a row with A = B = 0
\* has a ratio that is not a finite number; the call returns in both cases.
C6_Ratio ==
    map_result # 0 =>
        \A i \in Rows(Map) :
            LET a == ChoiceA(i)
                b == ChoiceB(i)
                r == Map.rows[i]["ratio"]
            IN (a.kind = "finite" /\ b.kind = "finite") =>
                 /\ (a.num >= 0 /\ b.num >= 0 /\ a.num + b.num > 0) =>
                       /\ r.kind = "finite"
                       /\ r.den > 0
                       /\ r.num * (a.num + b.num) = a.num * r.den
                       /\ 0 <= r.num /\ r.num <= r.den
                 /\ (a.num = 0 /\ b.num = 0) => r.kind # "finite"

C6_Witness ==
    /\ map_result # 0
    /\ Len(Map.rows) = 2
    /\ ChoiceA(1) = ToFloat(0) /\ ChoiceB(1) = ToFloat(0)
    /\ Map.rows[1]["ratio"] = FNaN
    /\ ChoiceA(2) = ToFloat(600) /\ ChoiceB(2) = ToFloat(400)
    /\ Map.rows[2]["ratio"] = Float(3, 5)

\* ---------------------------------------------------------------- C7
GeoRowOf(code) == {g \in Rows(geojson) : geojson.rows[g]["code"] = code}
ResultRowOf(code) == {k \in Rows(Results) : Results.index[k] = code}

\* C7: the returned table has exactly the rows of the geometry file, in
\* order; a geometry whose code is the label of a result row carries that
\* row's fields, any other geometry carries missing result fields and a
\* missing ratio; a result row whose label is the code of no geometry is
\* absent.
C7_OneRowPerGeometry ==
    map_result # 0 =>
        /\ Len(Map.rows) = Len(geojson.rows)
        /\ \A i \in Rows(Map) :
              /\ [c \in Range(GeoColumns) |-> Map.rows[i][c]] = geojson.rows[i]
              /\ IF ResultRowOf(Map.rows[i]["code"]) # {}
                 THEN /\ Map.rows[i]["code_reg"] = Map.rows[i]["code"]
                      /\ \E k \in ResultRowOf(Map.rows[i]["code"]) :
                            /\ ChoiceA(i) = ToFloat(Results.rows[k]["Choice A"])
                            /\ ChoiceB(i) = ToFloat(Results.rows[k]["Choice B"])
                            /\ Map.rows[i]["name_reg"] =
                                   Results.rows[k]["name_reg"]
                 ELSE /\ Map.rows[i]["code_reg"] = NaN
                      /\ Map.rows[i]["name_reg"] = NaN
                      /\ \A c \in Range(CountColumns) : Map.rows[i][c] = FNaN
                      /\ Map.rows[i]["ratio"] = FNaN
        /\ \A k \in Rows(Results) :
              GeoRowOf(Results.index[k]) = {} =>
                  \A i \in Rows(Map) :
                      Map.rows[i]["code_reg"] # Results.index[k]

C7_Witness ==
    /\ map_result # 0
    /\ Len(Map.rows) = 2
    /\ Map.rows[1]["code_reg"] = NaN
    /\ Map.rows[2]["code_reg"] = <<"8", "4">>
    /\ \E k \in Rows(Results) : GeoRowOf(Results.index[k]) = {}

\* ---------------------------------------------------------------- C9
\* C9: no step of the pipeline changes an object that existed before it (the
\* tables passed as arguments among them), nor the geometry file: the
\* caller's referendum table gets no code_dep/name_dep column and the
\* caller's area table keeps its unpadded codes.
C9_InputsNotMutated ==
    [][/\ \A i \in 1..Len(heap) : heap'[i] = heap[i]
       /\ geojson' = geojson]_vars

C9_Witness ==
    /\ pc = "plotted"
    /\ Referendum.columns = ReferendumColumns
    /\ \E a \in Rows(Areas) : Areas.rows[a]["code_dep"] = PyInt(1)
    /\ \E i \in Rows(Merged) : Merged.rows[i]["code_dep"] = <<"0", "1">>
    /\ "ratio" \in Range(Map.columns)
====
